---- MODULE Spec2Model ----
(***************************************************************************)
(* Model of src/src/text_agent.rs: the hidden <input> "text agent", the    *)
(* DOM event listeners that forward egui events into a channel, and the    *)
(* per-frame systems propagate_text and update_text_agent.                 *)
(***************************************************************************)
EXTENDS Integers, Sequences, FiniteSets, TLC

\* ------------------------------------------------------------------ bounds
NumContexts == 2
MaxSends == 2
MaxTimers == 1
MaxKeySends == 1
MaxCoord == 1

\* key_code the browser reports for a keydown handled by the IME
ImeKeyCode == 229

Contexts == 1..NumContexts

VARIABLES
    has_focus,     \* has_focus[c]: contexts.egui_input.has_focus of context c
    events,        \* events[c]: contexts.egui_input.events of context c
    channel,       \* events sent into TextAgentChannel and not yet received
    redraws,       \* number of RequestRedraw events sent
    hidden,        \* the agent's `hidden` attribute
    dom_focus,     \* the agent is the document's focused element
    value,         \* the agent's `value`
    is_composing,  \* the Rc<Cell<bool>> shared by on_input / on_compositionend
    ime_active,    \* the browser has a composition session open on the agent
    timers,        \* refocus timeouts scheduled by on_focusout, not yet run
    nsent,         \* number of events ever sent into the channel
    style,         \* the agent's style: top and left, in px
    last           \* the handler or system that ran last, its input and output

vars == <<has_focus, events, channel, redraws, hidden, dom_focus, value,
          is_composing, ime_active, timers, nsent, style, last>>

\* ------------------------------------------------------------ Option<T>
None == <<>>
Some(x) == <<x>>

\* ------------------------------------------------------------ egui::Event
KeyEv(key, pressed, modifiers) ==
    [type |-> "Key", key |-> key, pressed |-> pressed,
     modifiers |-> modifiers, repeat |-> FALSE]
TextEv(text) == [type |-> "Text", text |-> text]
CutEv == [type |-> "Cut"]
CopyEv == [type |-> "Copy"]

IsText(e) == e.type = "Text"
IsKey(e) == e.type = "Key"

\* ------------------------------------------------------------ key strings
Lower == <<"a", "b", "c", "d", "e", "f", "g", "h", "i", "j", "k", "l", "m",
           "n", "o", "p", "q", "r", "s", "t", "u", "v", "w", "x", "y", "z">>
Upper == <<"A", "B", "C", "D", "E", "F", "G", "H", "I", "J", "K", "L", "M",
           "N", "O", "P", "Q", "R", "S", "T", "U", "V", "W", "X", "Y", "Z">>
Digits == <<"0", "1", "2", "3", "4", "5", "6", "7", "8", "9">>

Range(s) == {s[i] : i \in 1..Len(s)}

\* the tails t of the key strings "F" \o t of the model
KeyTails == {"", "1", "2", "12", "n", "nLock"}

\* the key strings the handlers are driven with
KeyStrings ==
    Range(Lower) \cup Range(Upper) \cup Range(Digits)
    \cup {"F" \o t : t \in KeyTails}
    \cup {"ArrowDown", "ArrowLeft", "ArrowRight", "ArrowUp", "Esc", "Escape",
          "Tab", "Backspace", "Enter", "Space", " ", "Help", "Insert",
          "Delete", "Home", "End", "PageUp", "PageDown"}
    \cup {"Alt", "AltGraph", "CapsLock", "ContextMenu", "Control", "Meta",
          "NumLock", "Pause", "ScrollLock", "Shift", "SymbolLock"}
    \cup {"", "ab", "+", "?", "Unidentified"}

\* str::starts_with, for the key strings of the model
starts_with(key, c) == \E t \in KeyTails : key = c \o t

\* translate_key matching the letters case-sensitively (lower case only)
translate_key_lower_only(key) ==
    IF key \in {"ArrowDown", "ArrowLeft", "ArrowRight", "ArrowUp", "Tab",
                "Backspace", "Enter", "Delete", "Home", "End", "PageUp",
                "PageDown"} THEN Some(key)
    ELSE IF key \in {"Esc", "Escape"} THEN Some("Escape")
    ELSE IF key \in {"Space", " "} THEN Some("Space")
    ELSE IF key \in {"Help", "Insert"} THEN Some("Insert")
    ELSE IF \E i \in 1..Len(Digits) : key = Digits[i]
         THEN Some("Num" \o key)
    ELSE IF \E i \in 1..Len(Lower) : key = Lower[i]
         THEN Some(Upper[CHOOSE i \in 1..Len(Lower) : key = Lower[i]])
    ELSE None

translate_key(key) ==
    CASE key = "ArrowDown" -> Some("ArrowDown")
      [] key = "ArrowLeft" -> Some("ArrowLeft")
      [] key = "ArrowRight" -> Some("ArrowRight")
      [] key = "ArrowUp" -> Some("ArrowUp")
      [] key \in {"Esc", "Escape"} -> Some("Escape")
      [] key = "Tab" -> Some("Tab")
      [] key = "Backspace" -> Some("Backspace")
      [] key = "Enter" -> Some("Enter")
      [] key \in {"Space", " "} -> Some("Space")
      [] key \in {"Help", "Insert"} -> Some("Insert")
      [] key = "Delete" -> Some("Delete")
      [] key = "Home" -> Some("Home")
      [] key = "End" -> Some("End")
      [] key = "PageUp" -> Some("PageUp")
      [] key = "PageDown" -> Some("PageDown")
      [] key = "0" -> Some("Num0")
      [] key = "1" -> Some("Num1")
      [] key = "2" -> Some("Num2")
      [] key = "3" -> Some("Num3")
      [] key = "4" -> Some("Num4")
      [] key = "5" -> Some("Num5")
      [] key = "6" -> Some("Num6")
      [] key = "7" -> Some("Num7")
      [] key = "8" -> Some("Num8")
      [] key = "9" -> Some("Num9")
      [] key \in {"a", "A"} -> Some("A")
      [] key \in {"b", "B"} -> Some("B")
      [] key \in {"c", "C"} -> Some("C")
      [] key \in {"d", "D"} -> Some("D")
      [] key \in {"e", "E"} -> Some("E")
      [] key \in {"f", "F"} -> Some("F")
      [] key \in {"g", "G"} -> Some("G")
      [] key \in {"h", "H"} -> Some("H")
      [] key \in {"i", "I"} -> Some("I")
      [] key \in {"j", "J"} -> Some("J")
      [] key \in {"k", "K"} -> Some("K")
      [] key \in {"l", "L"} -> Some("L")
      [] key \in {"m", "M"} -> Some("M")
      [] key \in {"n", "N"} -> Some("N")
      [] key \in {"o", "O"} -> Some("O")
      [] key \in {"p", "P"} -> Some("P")
      [] key \in {"q", "Q"} -> Some("Q")
      [] key \in {"r", "R"} -> Some("R")
      [] key \in {"s", "S"} -> Some("S")
      [] key \in {"t", "T"} -> Some("T")
      [] key \in {"u", "U"} -> Some("U")
      [] key \in {"v", "V"} -> Some("V")
      [] key \in {"w", "W"} -> Some("W")
      [] key \in {"x", "X"} -> Some("X")
      [] key \in {"y", "Y"} -> Some("Y")
      [] key \in {"z", "Z"} -> Some("Z")
      [] OTHER -> None

should_ignore_key(key) ==
    LET is_function_key == starts_with(key, "F") /\ Len(key) > 1
    IN  \/ is_function_key
        \/ key \in {"Alt", "ArrowDown", "ArrowLeft", "ArrowRight", "ArrowUp",
                    "Backspace", "CapsLock", "ContextMenu", "Control",
                    "Delete", "End", "Enter", "Esc", "Escape", "Help", "Home",
                    "Insert", "Meta", "NumLock", "PageDown", "PageUp",
                    "Pause", "ScrollLock", "Shift", "Tab"}

\* ------------------------------------------------------------ keyboard events
\* a web_sys::KeyboardEvent, as far as the handlers read it
KeyboardEvent(key, alt, ctrl, shift, meta, composing, code) ==
    [key |-> key, alt_key |-> alt, ctrl_key |-> ctrl, shift_key |-> shift,
     meta_key |-> meta, is_composing |-> composing, key_code |-> code]

modifiers_from_event(event) ==
    [alt |-> event.alt_key,
     ctrl |-> event.ctrl_key,
     shift |-> event.shift_key,
     mac_cmd |-> event.meta_key,
     command |-> event.ctrl_key \/ event.meta_key]

text_agent_hidden == hidden

\* on_keydown with `&&` for `||` in the composition test
on_keydown_both_ime_tests(event) ==
    IF event.is_composing /\ event.key_code = ImeKeyCode
    THEN <<>>
    ELSE LET modifiers == modifiers_from_event(event)
             key == event.key
         IN  (IF translate_key(key) # None
              THEN <<KeyEv(translate_key(key)[1], TRUE, modifiers)>>
              ELSE <<>>)
             \o
             (IF /\ ~modifiers.ctrl
                 /\ ~modifiers.command
                 /\ ~should_ignore_key(key)
                 /\ text_agent_hidden
              THEN <<TextEv(key)>>
              ELSE <<>>)

\* on_keydown without the text_agent_hidden() test
on_keydown_ignores_hidden(event) ==
    IF event.is_composing \/ event.key_code = ImeKeyCode
    THEN <<>>
    ELSE LET modifiers == modifiers_from_event(event)
             key == event.key
         IN  (IF translate_key(key) # None
              THEN <<KeyEv(translate_key(key)[1], TRUE, modifiers)>>
              ELSE <<>>)
             \o
             (IF /\ ~modifiers.ctrl
                 /\ ~modifiers.command
                 /\ ~should_ignore_key(key)
              THEN <<TextEv(key)>>
              ELSE <<>>)

\* on_keydown with the two sends in the other order
on_keydown_text_first(event) ==
    IF event.is_composing \/ event.key_code = ImeKeyCode
    THEN <<>>
    ELSE LET modifiers == modifiers_from_event(event)
             key == event.key
         IN  (IF /\ ~modifiers.ctrl
                 /\ ~modifiers.command
                 /\ ~should_ignore_key(key)
                 /\ text_agent_hidden
              THEN <<TextEv(key)>>
              ELSE <<>>)
             \o
             (IF translate_key(key) # None
              THEN <<KeyEv(translate_key(key)[1], TRUE, modifiers)>>
              ELSE <<>>)

\* the events the document's keydown listener sends, in order
on_keydown(event) ==
    IF event.is_composing \/ event.key_code = ImeKeyCode
    THEN <<>>
    ELSE LET modifiers == modifiers_from_event(event)
             key == event.key
         IN  (IF translate_key(key) # None
              THEN <<KeyEv(translate_key(key)[1], TRUE, modifiers)>>
              ELSE <<>>)
             \o
             (IF /\ ~modifiers.ctrl
                 /\ ~modifiers.command
                 /\ ~should_ignore_key(key)
                 /\ text_agent_hidden
              THEN <<TextEv(key)>>
              ELSE <<>>)

\* on_keyup with the composition filter of on_keydown
on_keyup_skips_composing(event) ==
    IF event.is_composing \/ event.key_code = ImeKeyCode
    THEN <<>>
    ELSE IF translate_key(event.key) # None
         THEN <<KeyEv(translate_key(event.key)[1], FALSE,
                      modifiers_from_event(event))>>
         ELSE <<>>

\* the events the document's keyup listener sends
on_keyup(event) ==
    LET modifiers == modifiers_from_event(event)
    IN  IF translate_key(event.key) # None
        THEN <<KeyEv(translate_key(event.key)[1], FALSE, modifiers)>>
        ELSE <<>>

\* on_input without the is_composing test
on_input_takes_while_composing(text, composing) == text # ""

\* the agent's input listener, run with `text` as the agent's value:
\* whether it takes the value (clears it and sends it as Text)
on_input_takes(text, composing) == text # "" /\ ~composing
on_input_sends(text, composing) ==
    IF on_input_takes(text, composing) THEN <<TextEv(text)>> ELSE <<>>
\* on_input without set_value(""): the value is sent and left in place
on_input_value_keeps(text, composing) == text

on_input_value(text, composing) ==
    IF on_input_takes(text, composing) THEN "" ELSE text

\* the Text the agent's compositionend branch sends for event.data()
on_compositionend_sends(data) ==
    IF data # None THEN <<TextEv(data[1])>> ELSE <<>>

\* ------------------------------------------------------------ the channel
\* events tagged with the listener that sends them
Tag(evs, src) == [i \in 1..Len(evs) |-> [ev |-> evs[i], src |-> src]]
\* sender.send for each tagged event in turn; id numbers the sends
Stamp(tagged) ==
    [i \in 1..Len(tagged) |->
        [id |-> nsent + i, ev |-> tagged[i].ev, src |-> tagged[i].src]]
Send(tagged) ==
    /\ channel' = channel \o Stamp(tagged)
    /\ nsent' = nsent + Len(tagged)

\* ------------------------------------------------------------ initial state
\* install_text_agent and install_document_events have run, the channel is
\* TextAgentChannel::default(); the contexts' focus flags are the engine's.
Init ==
    /\ has_focus \in [Contexts -> BOOLEAN]
    /\ events = [c \in Contexts |-> <<>>]
    /\ channel = <<>>
    /\ redraws = 0
    /\ hidden = TRUE
    /\ dom_focus = FALSE
    /\ value = ""
    /\ is_composing = FALSE
    /\ ime_active = FALSE
    /\ timers = 0
    /\ nsent = 0
    /\ style = [top |-> 0, left |-> 0]
    /\ last = [op |-> "install", in |-> <<>>, out |-> <<>>]

\* ------------------------------------------------------------ propagate_text
AnyFocus == \E c \in Contexts : has_focus[c]

\* the loop over the contexts: the first one with has_focus, 0 when none
RECURSIVE FirstFocusedFrom(_)
FirstFocusedFrom(c) ==
    IF c > NumContexts THEN 0
    ELSE IF has_focus[c] THEN c
    ELSE FirstFocusedFrom(c + 1)
FirstFocused == FirstFocusedFrom(1)

\* propagate_text without the `break`-and-drain discipline: every focused
\* context is handed the pending events
propagate_text_every_focused ==
    /\ IF FirstFocused # 0
       THEN /\ events' = [c \in Contexts |->
                            IF has_focus[c] THEN events[c] \o channel
                            ELSE events[c]]
            /\ channel' = <<>>
            /\ redraws' = IF channel # <<>> THEN redraws + 1 ELSE redraws
       ELSE UNCHANGED <<events, channel, redraws>>
    /\ last' = [op |-> "propagate_text", in |-> <<>>, out |-> <<>>]
    /\ UNCHANGED <<style, has_focus, hidden, dom_focus, value, is_composing,
                   ime_active, timers, nsent>>

\* propagate_text without the has_focus test: the first context is served
propagate_text_ignores_focus ==
    /\ events' = [events EXCEPT ![1] = @ \o channel]
    /\ channel' = <<>>
    /\ redraws' = IF channel # <<>> THEN redraws + 1 ELSE redraws
    /\ last' = [op |-> "propagate_text", in |-> <<>>, out |-> <<>>]
    /\ UNCHANGED <<style, has_focus, hidden, dom_focus, value, is_composing,
                   ime_active, timers, nsent>>

\* propagate_text reading the channel without removing what it read
propagate_text_keeps_channel ==
    /\ IF FirstFocused # 0
       THEN /\ events' = [events EXCEPT ![FirstFocused] = @ \o channel]
            /\ channel' = channel
            /\ redraws' = IF channel # <<>> THEN redraws + 1 ELSE redraws
       ELSE UNCHANGED <<events, channel, redraws>>
    /\ last' = [op |-> "propagate_text", in |-> <<>>, out |-> <<>>]
    /\ UNCHANGED <<style, has_focus, hidden, dom_focus, value, is_composing,
                   ime_active, timers, nsent>>

\* propagate_text with `if let` in place of `while let`: one event per run
propagate_text_one_event ==
    /\ IF FirstFocused # 0 /\ channel # <<>>
       THEN /\ events' = [events EXCEPT ![FirstFocused] = Append(@, Head(channel))]
            /\ channel' = Tail(channel)
            /\ redraws' = redraws + 1
       ELSE UNCHANGED <<events, channel, redraws>>
    /\ last' = [op |-> "propagate_text", in |-> <<>>, out |-> <<>>]
    /\ UNCHANGED <<style, has_focus, hidden, dom_focus, value, is_composing,
                   ime_active, timers, nsent>>

\* propagate_text sending RequestRedraw inside the `while let` loop
propagate_text_redraws_per_event ==
    /\ IF FirstFocused # 0
       THEN /\ events' = [events EXCEPT ![FirstFocused] = @ \o channel]
            /\ channel' = <<>>
            /\ redraws' = redraws + Len(channel)
       ELSE UNCHANGED <<events, channel, redraws>>
    /\ last' = [op |-> "propagate_text", in |-> <<>>, out |-> <<>>]
    /\ UNCHANGED <<style, has_focus, hidden, dom_focus, value, is_composing,
                   ime_active, timers, nsent>>

propagate_text ==
    /\ IF FirstFocused # 0
       THEN /\ events' = [events EXCEPT ![FirstFocused] = @ \o channel]
            /\ channel' = <<>>
            /\ redraws' = IF channel # <<>> THEN redraws + 1 ELSE redraws
       ELSE UNCHANGED <<events, channel, redraws>>
    /\ last' = [op |-> "propagate_text", in |-> <<>>, out |-> <<>>]
    /\ UNCHANGED <<style, has_focus, hidden, dom_focus, value, is_composing,
                   ime_active, timers, nsent>>

\* the engine sets or clears a context's focus flag
SetFocus(c, b) ==
    /\ has_focus[c] # b
    /\ has_focus' = [has_focus EXCEPT ![c] = b]
    /\ last' = [op |-> "set_focus", in |-> <<>>, out |-> <<>>]
    /\ UNCHANGED <<style, events, channel, redraws, hidden, dom_focus, value,
                   is_composing, ime_active, timers, nsent>>

\* ------------------------------------------------------------ document listeners
\* One keystroke: the document's keydown listener runs; then, when the agent
\* is the focused element and the key types a character, the browser appends
\* it to the agent's value and the agent's input listener runs.
KeyTypesInto(event) ==
    /\ dom_focus
    /\ ~ime_active
    /\ ~event.is_composing
    /\ Len(event.key) = 1
    /\ ~event.ctrl_key
    /\ ~event.meta_key

Keystroke(event) ==
    LET down == Tag(on_keydown(event), "keydown")
        typed == value \o event.key
        inp == IF KeyTypesInto(event)
               THEN Tag(on_input_sends(typed, is_composing), "input")
               ELSE <<>>
    IN  /\ Send(down \o inp)
        /\ value' = IF KeyTypesInto(event)
                    THEN on_input_value(typed, is_composing)
                    ELSE value
        /\ last' = [op |-> "keydown", in |-> event, out |-> down \o inp]
        /\ UNCHANGED <<style, has_focus, events, redraws, hidden, dom_focus,
                       is_composing, ime_active, timers>>

KeyUp(event) ==
    LET up == Tag(on_keyup(event), "keyup")
    IN  /\ Send(up)
        /\ last' = [op |-> "keyup", in |-> event, out |-> up]
        /\ UNCHANGED <<style, has_focus, events, redraws, hidden, dom_focus, value,
                       is_composing, ime_active, timers>>

\* paste: the document's listener sends the clipboard text; when the agent is
\* the focused element the browser also inserts the text into its value and
\* the agent's input listener runs. clip = None: no clipboard data or no text.
Paste(clip) ==
    LET doc == IF clip # None THEN Tag(<<TextEv(clip[1])>>, "paste") ELSE <<>>
        into == dom_focus /\ ~ime_active /\ clip # None
        typed == IF into THEN value \o clip[1] ELSE value
        inp == IF into
               THEN Tag(on_input_sends(typed, is_composing), "input")
               ELSE <<>>
    IN  /\ Send(doc \o inp)
        /\ value' = IF into THEN on_input_value(typed, is_composing) ELSE value
        /\ last' = [op |-> "paste", in |-> clip, out |-> doc \o inp]
        /\ UNCHANGED <<style, has_focus, events, redraws, hidden, dom_focus,
                       is_composing, ime_active, timers>>

Cut ==
    /\ Send(Tag(<<CutEv>>, "cut"))
    /\ last' = [op |-> "cut", in |-> <<>>, out |-> Tag(<<CutEv>>, "cut")]
    /\ UNCHANGED <<style, has_focus, events, redraws, hidden, dom_focus, value,
                   is_composing, ime_active, timers>>

Copy ==
    /\ Send(Tag(<<CopyEv>>, "copy"))
    /\ last' = [op |-> "copy", in |-> <<>>, out |-> Tag(<<CopyEv>>, "copy")]
    /\ UNCHANGED <<style, has_focus, events, redraws, hidden, dom_focus, value,
                   is_composing, ime_active, timers>>

\* ------------------------------------------------------------ agent listeners
\* an input event on the agent that is not part of a keystroke or a paste:
\* the browser has appended `text` to the value ("" for an input event that
\* brings no new text, such as the one a browser fires after compositionend)
AgentInput(text) ==
    LET typed == value \o text
        inp == Tag(on_input_sends(typed, is_composing), "input")
    IN  /\ dom_focus
        /\ text # "" => ~ime_active
        /\ Send(inp)
        /\ value' = on_input_value(typed, is_composing)
        /\ last' = [op |-> "input", in |-> text, out |-> inp]
        /\ UNCHANGED <<style, has_focus, events, redraws, hidden, dom_focus,
                       is_composing, ime_active, timers>>

CompositionStart ==
    /\ dom_focus
    /\ ~ime_active
    /\ ime_active' = TRUE
    /\ is_composing' = TRUE
    /\ value' = ""
    /\ last' = [op |-> "compositionstart", in |-> <<>>, out |-> <<>>]
    /\ UNCHANGED <<style, has_focus, events, channel, redraws, hidden, dom_focus,
                   timers, nsent>>

\* the browser shows the composition string `text` in the value and fires
\* compositionupdate (a no-op in the listener) and then input
CompositionUpdate(text) ==
    LET inp == Tag(on_input_sends(text, is_composing), "input")
    IN  /\ ime_active
        /\ Send(inp)
        /\ value' = on_input_value(text, is_composing)
        /\ last' = [op |-> "compositionupdate", in |-> text, out |-> inp]
        /\ UNCHANGED <<style, has_focus, events, redraws, hidden, dom_focus,
                       is_composing, ime_active, timers>>

CompositionEnd(data) ==
    LET out == Tag(on_compositionend_sends(data), "compositionend")
    IN  /\ ime_active
        /\ ime_active' = FALSE
        /\ is_composing' = FALSE
        /\ value' = ""
        /\ Send(out)
        /\ last' = [op |-> "compositionend", in |-> data, out |-> out]
        /\ UNCHANGED <<style, has_focus, events, redraws, hidden, dom_focus, timers>>

\* HtmlElement::focus on the agent: an element with the hidden attribute is
\* not rendered and cannot take focus
AgentFocus == IF hidden' THEN dom_focus' = FALSE ELSE dom_focus' = TRUE

\* focusout without the set_timeout call
FocusOut_schedules_nothing ==
    /\ dom_focus
    /\ timers < MaxTimers
    /\ dom_focus' = FALSE
    /\ timers' = timers
    /\ last' = [op |-> "focusout", in |-> <<>>, out |-> <<>>]
    /\ UNCHANGED <<style, has_focus, events, channel, redraws, hidden, value,
                   is_composing, ime_active, nsent>>

\* the agent loses focus to something else on the page; on_focusout schedules
\* the refocus timeout
FocusOut ==
    /\ dom_focus
    /\ timers < MaxTimers
    /\ dom_focus' = FALSE
    /\ timers' = timers + 1
    /\ last' = [op |-> "focusout", in |-> <<>>, out |-> <<>>]
    /\ UNCHANGED <<style, has_focus, events, channel, redraws, hidden, value,
                   is_composing, ime_active, nsent>>

\* the refocus timeout un-hiding the agent before focusing it
RefocusTimeout_unhides ==
    /\ timers > 0
    /\ timers' = timers - 1
    /\ hidden' = FALSE
    /\ AgentFocus
    /\ last' = [op |-> "refocus", in |-> <<>>, out |-> <<>>]
    /\ UNCHANGED <<style, has_focus, events, channel, redraws, value,
                   is_composing, ime_active, nsent>>

\* a timeout scheduled by on_focusout runs
\* "document.getElementById('egui_text_agent').focus()"
RefocusTimeout ==
    /\ timers > 0
    /\ timers' = timers - 1
    /\ hidden' = hidden
    /\ AgentFocus
    /\ last' = [op |-> "refocus", in |-> <<>>, out |-> <<>>]
    /\ UNCHANGED <<style, has_focus, events, channel, redraws, value,
                   is_composing, ime_active, nsent>>

\* ------------------------------------------------------------ update_text_agent
\* what the lookups of window, document, agent element and canvas can give
Lookups == {"ok", "no_window", "no_document", "no_agent", "no_canvas",
            "not_a_canvas"}

\* the branch taken without the is_already_editing test: focus() is called
\* whenever a context has focus
UpdatePath_always_focuses(lookup, focus_ok, blur_ok) ==
    IF lookup # "ok" THEN "not_found"
    ELSE IF AnyFocus
         THEN IF focus_ok THEN "shown_focused" ELSE "shown_focus_failed"
         ELSE IF blur_ok THEN "blurred_hidden" ELSE "blur_failed"

\* the branch a run takes
UpdatePath(lookup, focus_ok, blur_ok) ==
    IF lookup # "ok" THEN "not_found"
    ELSE IF AnyFocus
         THEN IF hidden
              THEN IF focus_ok THEN "shown_focused" ELSE "shown_focus_failed"
              ELSE "already_shown"
         ELSE IF blur_ok THEN "blurred_hidden" ELSE "blur_failed"

\* the DOM calls a run made and what they returned
UpdateCalls(path) ==
    [lookup |-> IF path = "not_found" THEN "not_found" ELSE "ok",
     focus |-> CASE path = "shown_focused" -> "ok"
                 [] path = "shown_focus_failed" -> "err"
                 [] OTHER -> "not_called",
     blur |-> CASE path = "blurred_hidden" -> "ok"
                [] path = "blur_failed" -> "err"
                [] OTHER -> "not_called"]

\* update_text_agent with set_hidden(true) ahead of the blur() result test
update_text_agent_hides_first(lookup, focus_ok, blur_ok) ==
    LET path == UpdatePath(lookup, focus_ok, blur_ok)
    IN  /\ CASE path = "shown_focused" ->
                  /\ hidden' = FALSE
                  /\ dom_focus' = TRUE
                  /\ timers' = timers
             [] path = "shown_focus_failed" ->
                  /\ hidden' = FALSE
                  /\ UNCHANGED <<dom_focus, timers>>
             [] path = "blurred_hidden" ->
                  /\ dom_focus => timers < MaxTimers
                  /\ dom_focus' = FALSE
                  /\ timers' = IF dom_focus THEN timers + 1 ELSE timers
                  /\ hidden' = TRUE
             [] path = "blur_failed" ->
                  /\ dom_focus => timers < MaxTimers
                  /\ dom_focus' = FALSE
                  /\ timers' = IF dom_focus THEN timers + 1 ELSE timers
                  /\ hidden' = TRUE
             [] OTHER -> UNCHANGED <<hidden, dom_focus, timers>>
        /\ last' = [op |-> "update_text_agent", in |-> UpdateCalls(path),
                    out |-> <<>>]
        /\ UNCHANGED <<style, has_focus, events, channel, redraws, value,
                       is_composing, ime_active, nsent>>

\* update_text_agent with set_hidden(false) after the focus() result test
update_text_agent_shows_after_focus(lookup, focus_ok, blur_ok) ==
    LET path == UpdatePath(lookup, focus_ok, blur_ok)
    IN  /\ CASE path = "shown_focused" ->
                  /\ hidden' = FALSE
                  /\ dom_focus' = TRUE
                  /\ timers' = timers
             [] path = "blurred_hidden" ->
                  /\ dom_focus => timers < MaxTimers
                  /\ dom_focus' = FALSE
                  /\ timers' = IF dom_focus THEN timers + 1 ELSE timers
                  /\ hidden' = TRUE
             [] OTHER -> UNCHANGED <<hidden, dom_focus, timers>>
        /\ last' = [op |-> "update_text_agent", in |-> UpdateCalls(path),
                    out |-> <<>>]
        /\ UNCHANGED <<style, has_focus, events, channel, redraws, value,
                       is_composing, ime_active, nsent>>

update_text_agent(lookup, focus_ok, blur_ok) ==
    LET path == UpdatePath(lookup, focus_ok, blur_ok)
    IN  /\ CASE path = "shown_focused" ->
                  \* set_hidden(false), focus() returns Ok
                  /\ hidden' = FALSE
                  /\ dom_focus' = TRUE
                  /\ timers' = timers
             [] path = "shown_focus_failed" ->
                  \* set_hidden(false), focus() returns Err: return
                  /\ hidden' = FALSE
                  /\ UNCHANGED <<dom_focus, timers>>
             [] path = "blurred_hidden" ->
                  \* blur() returns Ok (on the focused agent it fires
                  \* focusout, and on_focusout schedules a refocus), then
                  \* set_hidden(true)
                  /\ dom_focus => timers < MaxTimers
                  /\ dom_focus' = FALSE
                  /\ timers' = IF dom_focus THEN timers + 1 ELSE timers
                  /\ hidden' = TRUE
             [] OTHER ->
                  \* a lookup failed, the agent is shown already, or blur()
                  \* returns Err: nothing is changed
                  UNCHANGED <<hidden, dom_focus, timers>>
        /\ last' = [op |-> "update_text_agent", in |-> UpdateCalls(path),
                    out |-> <<>>]
        /\ UNCHANGED <<style, has_focus, events, channel, redraws, value,
                       is_composing, ime_active, nsent>>

\* ------------------------------------------------------------ move_text_cursor
\* navigator.user_agent(): None when it cannot be read, else the product
\* names the string contains (user_agent.contains(name) is membership)
MOBILE_DEVICE == {"Android", "iPhone", "iPad", "iPod", "webOS", "BlackBerry"}

\* is_mobile taking an unreadable user agent for a desktop's
is_mobile_defaults_to_desktop(user_agent) ==
    IF user_agent = None THEN Some(FALSE)
    ELSE Some(\E name \in MOBILE_DEVICE : name \in user_agent[1])

is_mobile(user_agent) ==
    IF user_agent = None THEN None
    ELSE Some(\E name \in MOBILE_DEVICE : name \in user_agent[1])

Min(a, b) == IF a <= b THEN a ELSE b
Unit == "()"

\* move_text_cursor(cursor) in an environment: the user agent, what
\* query_selector("canvas") and dyn_into give, the canvas geometry, the
\* agent's bounding rect, and `failing`: which of the three set_property
\* calls is the first to return Err (0: none).
\* The agent element itself is there: text_agent() unwraps it.
move_text_cursor(user_agent, cursor, lookup, canvas, rect, failing) ==
    LET moves == is_mobile(user_agent) = Some(FALSE)
        found == cursor # None /\ lookup = "ok"
        y == IF moves
             THEN Min(cursor[1].y + (canvas.scroll_top + canvas.offset_top),
                      canvas.client_height - rect.height)
             ELSE 0
        x == IF moves
             THEN Min(cursor[1].x + (canvas.scroll_left + canvas.offset_left),
                      canvas.client_width - rect.width)
             ELSE 0
        input == [user_agent |-> user_agent, cursor |-> cursor,
                  lookup |-> lookup, canvas |-> canvas, rect |-> rect,
                  failing |-> failing]
    IN  /\ IF moves /\ ~found
           THEN \* cursor is None, or no canvas element: return None
                /\ style' = style
                /\ last' = [op |-> "move_text_cursor", in |-> input,
                            out |-> None]
           ELSE \* set_property("position"), ("top"), ("left"), each `.ok()?`
                /\ style' = [top |-> IF failing \in {0, 3} THEN y ELSE style.top,
                             left |-> IF failing = 0 THEN x ELSE style.left]
                /\ last' = [op |-> "move_text_cursor", in |-> input,
                            out |-> IF failing = 0 THEN Some(Unit) ELSE None]
        /\ UNCHANGED <<has_focus, events, channel, redraws, hidden, dom_focus,
                       value, is_composing, ime_active, timers, nsent>>

\* ------------------------------------------------------------ specifications
\* key_code values: an ordinary key, and the IME's
KeyCodes == {65, ImeKeyCode}

\* Spec: the channel, the contexts and the two per-frame systems, driven by
\* listeners on the document and on the agent.
SpecKeyEvents == {KeyboardEvent("a", FALSE, FALSE, FALSE, FALSE, FALSE, 65)}
SpecInputTexts == {"a"}
SpecLookups == {"ok", "no_canvas"}

Next ==
    \/ \E e \in SpecKeyEvents : Keystroke(e) /\ nsent' <= MaxSends
    \/ Cut /\ nsent' <= MaxSends
    \/ \E t \in SpecInputTexts : AgentInput(t) /\ nsent' <= MaxSends
    \/ FocusOut
    \/ RefocusTimeout
    \/ \E c \in Contexts, b \in BOOLEAN : SetFocus(c, b)
    \/ propagate_text
    \/ \E l \in SpecLookups, f \in BOOLEAN, b \in BOOLEAN :
          update_text_agent(l, f, b)

Spec == Init /\ [][Next]_vars

\* LiveSpec: the channel and the contexts with propagate_text run every
\* frame (weak fairness), fed by the document's keydown, cut and copy
\* listeners.
LiveNext ==
    \/ \E e \in SpecKeyEvents : Keystroke(e) /\ nsent' <= MaxSends
    \/ Cut /\ nsent' <= MaxSends
    \/ Copy /\ nsent' <= MaxSends
    \/ \E c \in Contexts, b \in BOOLEAN : SetFocus(c, b)
    \/ propagate_text

LiveSpec == Init /\ [][LiveNext]_vars /\ WF_vars(propagate_text)

\* AgentSpec: the agent element, its listeners and composition sessions, the
\* document's keydown listener, and update_text_agent.
AgentKeyEvents ==
    {KeyboardEvent("a", FALSE, FALSE, FALSE, FALSE, FALSE, 65),
     KeyboardEvent("a", FALSE, TRUE, FALSE, FALSE, FALSE, 65),
     KeyboardEvent("a", FALSE, FALSE, FALSE, FALSE, FALSE, ImeKeyCode),
     KeyboardEvent("a", FALSE, FALSE, FALSE, FALSE, TRUE, ImeKeyCode)}
AgentInputTexts == {"", "a"}
CompositionTexts == {"k"}
CompositionData == {None, Some("k")}

AgentNext ==
    \/ \E e \in AgentKeyEvents : Keystroke(e) /\ nsent' <= MaxSends
    \/ \E t \in AgentInputTexts : AgentInput(t) /\ nsent' <= MaxSends
    \/ CompositionStart
    \/ \E t \in CompositionTexts : CompositionUpdate(t) /\ nsent' <= MaxSends
    \/ \E d \in CompositionData : CompositionEnd(d) /\ nsent' <= MaxSends
    \/ FocusOut
    \/ RefocusTimeout
    \/ \E c \in Contexts, b \in BOOLEAN : SetFocus(c, b)
    \/ \E l \in Lookups, f \in BOOLEAN, b \in BOOLEAN : update_text_agent(l, f, b)

AgentSpec == Init /\ [][AgentNext]_vars

\* KeySpec: the document's keydown listener over every key string of the
\* model, outside composition, with the agent hidden or shown.
KeyInit == Init /\ \A c \in Contexts \ {1} : ~has_focus[c]
KeyMods == {<<TRUE, FALSE, FALSE, FALSE>>, <<FALSE, TRUE, FALSE, FALSE>>,
            <<FALSE, FALSE, TRUE, FALSE>>, <<FALSE, FALSE, FALSE, TRUE>>}
ModifiedKeys == {"a", "Z", "7", " ", "Space", "Enter", "Shift", "AltGraph",
                 "F1", "+"}
KeyEvents ==
    {KeyboardEvent(k, FALSE, FALSE, FALSE, FALSE, FALSE, 65) : k \in KeyStrings}
    \cup
    {KeyboardEvent(k, m[1], m[2], m[3], m[4], FALSE, 65) :
        k \in ModifiedKeys, m \in KeyMods}

KeyNext ==
    \/ \E e \in KeyEvents : nsent < MaxKeySends /\ Keystroke(e)
    \/ \E f \in BOOLEAN, b \in BOOLEAN : update_text_agent("ok", f, b)

KeySpec == KeyInit /\ [][KeyNext]_vars

\* ImeKeySpec: the document's keydown listener on keydown events that
\* belong to a composition, over every key string of the model.
KeyComposing == {<<TRUE, 65>>, <<FALSE, ImeKeyCode>>, <<TRUE, ImeKeyCode>>}
ImeKeyEvents ==
    {KeyboardEvent(k, FALSE, FALSE, FALSE, FALSE, ic[1], ic[2]) :
        k \in KeyStrings, ic \in KeyComposing}
    \cup
    {KeyboardEvent(k, m[1], m[2], m[3], m[4], ic[1], ic[2]) :
        k \in ModifiedKeys, m \in KeyMods, ic \in KeyComposing}

ImeKeyNext ==
    \/ \E e \in ImeKeyEvents : nsent < MaxKeySends /\ Keystroke(e)
    \/ \E f \in BOOLEAN, b \in BOOLEAN : update_text_agent("ok", f, b)

ImeKeySpec == KeyInit /\ [][ImeKeyNext]_vars

\* ClipSpec: the document's paste, cut and copy listeners, with the agent
\* hidden or shown and focused. clipboard_data() / get_data("text") give the
\* text "p", or nothing.
ClipboardData == {None, Some("p")}

ClipNext ==
    \/ \E clip \in ClipboardData : Paste(clip) /\ nsent' <= MaxSends
    \/ Cut /\ nsent' <= MaxSends
    \/ Copy /\ nsent' <= MaxSends
    \/ \E c \in Contexts, b \in BOOLEAN : SetFocus(c, b)
    \/ \E f \in BOOLEAN, b \in BOOLEAN : update_text_agent("ok", f, b)

ClipSpec == Init /\ [][ClipNext]_vars

\* FocusSpec: the agent's focus, update_text_agent, a key typed, and the
\* refocus timeouts;
\* a timeout set with window.set_timeout runs once its 10 ms have passed
\* (weak fairness of RefocusTimeout).
FocusNext ==
    \/ \E e \in SpecKeyEvents : Keystroke(e) /\ nsent' <= MaxKeySends
    \/ FocusOut
    \/ RefocusTimeout
    \/ \E c \in Contexts, b \in BOOLEAN : SetFocus(c, b)
    \/ \E l \in SpecLookups, f \in BOOLEAN, b \in BOOLEAN :
          update_text_agent(l, f, b)

FocusSpec == Init /\ [][FocusNext]_vars /\ WF_vars(RefocusTimeout)

\* CursorSpec: move_text_cursor called with and without a cursor, on a
\* desktop, on a mobile device and with an unreadable user agent, with the
\* canvas found or not.
UserAgents == {None, Some({"Mozilla", "X11", "Linux"}),
               Some({"Mozilla", "Linux", "Android"})}
Cursors ==
    {None} \cup {Some([x |-> x, y |-> y]) : x \in 0..MaxCoord, y \in 0..MaxCoord}
CanvasLookups == {"ok", "no_canvas"}
Canvases ==
    {[scroll_top |-> 0, offset_top |-> 0, client_height |-> 2,
      scroll_left |-> 0, offset_left |-> 0, client_width |-> 3],
     [scroll_top |-> 1, offset_top |-> 1, client_height |-> 3,
      scroll_left |-> 0, offset_left |-> 1, client_width |-> 2]}
AgentRects == {[width |-> 1, height |-> 1]}
StyleWrites == 0..3

CursorNext ==
    \E ua \in UserAgents, cursor \in Cursors, l \in CanvasLookups,
       canvas \in Canvases, rect \in AgentRects, failing \in StyleWrites :
        move_text_cursor(ua, cursor, l, canvas, rect, failing)

CursorSpec == KeyInit /\ [][CursorNext]_vars

\* KeyUpSpec: keys pressed and released. A key is released after it was
\* pressed, and the keyup reports the key string of the keydown; the keyup
\* may come with shift held or released and inside or outside a composition.
PressEvents ==
    KeyEvents \cup
    {KeyboardEvent(k, FALSE, FALSE, FALSE, FALSE, TRUE, ImeKeyCode) :
        k \in {"a", "Enter"}}
ReleaseEvents ==
    {KeyboardEvent(k, FALSE, FALSE, s, FALSE, ic[1], ic[2]) :
        k \in KeyStrings, s \in BOOLEAN,
        ic \in {<<FALSE, 65>>, <<TRUE, ImeKeyCode>>}}

KeyUpNext ==
    \/ \E e \in PressEvents : nsent < MaxKeySends /\ Keystroke(e)
    \/ \E e \in ReleaseEvents :
          last.op = "keydown" /\ e.key = last.in.key /\ KeyUp(e)

KeyUpSpec == KeyInit /\ [][KeyUpNext]_vars

\* HandlerSpec: every listener, timeout and system of the module side by
\* side, each with one or two inputs; the first context gains and loses
\* focus, the others have none.
HandlerCursors == {None, Some([x |-> 0, y |-> 0])}
HandlerCanvases == {canvas \in Canvases : canvas.scroll_top = 1}

HandlerNext ==
    \/ \E e \in SpecKeyEvents : Keystroke(e) /\ nsent' <= MaxKeySends
    \/ \E e \in SpecKeyEvents : KeyUp(e) /\ nsent' <= MaxKeySends
    \/ \E clip \in ClipboardData : Paste(clip) /\ nsent' <= MaxKeySends
    \/ Cut /\ nsent' <= MaxKeySends
    \/ Copy /\ nsent' <= MaxKeySends
    \/ \E t \in SpecInputTexts : AgentInput(t) /\ nsent' <= MaxKeySends
    \/ CompositionStart
    \/ \E t \in CompositionTexts : CompositionUpdate(t) /\ nsent' <= MaxKeySends
    \/ \E d \in CompositionData : CompositionEnd(d) /\ nsent' <= MaxKeySends
    \/ FocusOut
    \/ RefocusTimeout
    \/ \E b \in BOOLEAN : SetFocus(1, b)
    \/ propagate_text
    \/ \E l \in SpecLookups, f \in BOOLEAN, b \in BOOLEAN :
          update_text_agent(l, f, b)
    \/ \E ua \in UserAgents, cursor \in HandlerCursors, canvas \in HandlerCanvases,
          rect \in AgentRects :
          move_text_cursor(ua, cursor, "ok", canvas, rect, 0)

HandlerSpec == KeyInit /\ [][HandlerNext]_vars

\* ------------------------------------------------------------ properties
\* helpers for the statements below
IdsOf(seq) == {seq[i].id : i \in 1..Len(seq)}
Increasing(seq) == \A i, j \in 1..Len(seq) : i < j => seq[i].id < seq[j].id
Occurrences(n, seq) == Cardinality({i \in 1..Len(seq) : seq[i].id = n})
InChannel(n) == n \in IdsOf(channel)
Delivered(n) == \E c \in Contexts : n \in IdsOf(events[c])
\* the step taken is a run of propagate_text
PropagateStep == last'.op = "propagate_text"
\* c is the first context with has_focus in iteration order
IsFirstFocused(c) == has_focus[c] /\ \A d \in Contexts : d < c => ~has_focus[d]

\* C1: a run of propagate_text with some context focused appends the pending
\* events, in the order sent, to the first focused context's events, leaves
\* the channel empty and leaves every other context's events as they were.
C1_DeliversToFirstFocused ==
    [][(PropagateStep /\ AnyFocus) =>
         \E c \in Contexts :
            /\ IsFirstFocused(c)
            /\ events'[c] = events[c] \o channel
            /\ channel' = <<>>
            /\ \A d \in Contexts \ {c} : events'[d] = events[d]]_vars

\* C1 witness: one run has delivered two events to context 2 while context
\* 1 was not focused
C1_Witness ==
    /\ last.op = "propagate_text"
    /\ ~has_focus[1] /\ has_focus[2]
    /\ Len(events[2]) = 2 /\ redraws = 1
    /\ events[1] = <<>> /\ channel = <<>>

\* C2: no step appends to the events of a context without focus, and a run
\* of propagate_text with no context focused changes neither the channel,
\* nor any context's events, nor the redraw requests.
C2_UnfocusedUntouched ==
    [][/\ \A c \in Contexts : ~has_focus[c] => events'[c] = events[c]
       /\ (PropagateStep /\ ~AnyFocus) =>
             UNCHANGED <<channel, events, redraws>>]_vars

\* C2 witness: propagate_text has run with events pending and no focus
C2_Witness ==
    /\ last.op = "propagate_text"
    /\ ~AnyFocus
    /\ Len(channel) = 2

\* C5: every event sent is either in the channel or exactly once in exactly
\* one context's events; delivery keeps the order of sending.
C5_NoLossNoDuplication ==
    /\ \A n \in 1..nsent :
          Occurrences(n, channel)
            + Cardinality({c \in Contexts : n \in IdsOf(events[c])}) = 1
    /\ \A n \in 1..nsent, c \in Contexts : Occurrences(n, events[c]) <= 1
    /\ IdsOf(channel) \subseteq 1..nsent
    /\ \A c \in Contexts : IdsOf(events[c]) \subseteq 1..nsent
    /\ Increasing(channel)
    /\ \A c \in Contexts : Increasing(events[c])
    /\ \A c \in Contexts : \A m \in IdsOf(events[c]) : \A n \in IdsOf(channel) : m < n

\* C5 witness: two events sent, delivered by two runs to two contexts
C5_Witness ==
    /\ nsent = 2
    /\ Len(events[1]) = 1 /\ Len(events[2]) = 1
    /\ events[2][1].id < events[1][1].id

\* C6: a run of propagate_text without focus keeps the channel as it is; a
\* run with focus delivers the whole channel, oldest first, behind what the
\* context already holds; and whenever events are in the channel and a run
\* of propagate_text with some context focused follows, every event sent is
\* eventually delivered.
FocusedRunDone == last.op = "propagate_text" /\ AnyFocus
AllDelivered == \A n \in 1..nsent : Delivered(n)
C6_QueuedUntilFocus ==
    /\ [][(PropagateStep /\ ~AnyFocus) => channel' = channel]_vars
    /\ [][(PropagateStep /\ AnyFocus) =>
            /\ channel' = <<>>
            /\ \E c \in Contexts :
                  /\ Len(events'[c]) = Len(events[c]) + Len(channel)
                  /\ \A i \in 1..Len(channel) :
                        events'[c][Len(events[c]) + i] = channel[i]]_vars
    /\ [](channel # <<>> => (<>FocusedRunDone => <>AllDelivered))

\* C6 witness: a Cut and a later Copy, sent by different listeners, have
\* been delivered by one run with focus, the Cut ahead of the Copy
C6_Witness ==
    /\ last.op = "propagate_text"
    /\ AnyFocus
    /\ redraws = 1
    /\ \E c \in Contexts :
          /\ Len(events[c]) = 2
          /\ events[c][1].ev = CutEv
          /\ events[c][2].ev = CopyEv

\* the events among `out` sent by listener `src`
SentBy(out, src) == {i \in 1..Len(out) : out[i].src = src}
TextsIn(out) == {i \in 1..Len(out) : IsText(out[i].ev)}
KeysIn(out) == {i \in 1..Len(out) : IsKey(out[i].ev)}

\* C3: the composing flag is set exactly while a composition session is
\* open; while it is set the agent's listeners send nothing; compositionend
\* sends the event's data as one Text (nothing when there is no data),
\* clears the flag and the value; and an input event that brings no new
\* text right after compositionend sends nothing.
C3_CompositionCommitsOnce ==
    /\ [](is_composing = ime_active)
    /\ []((is_composing /\ last.op # "compositionend") =>
             /\ SentBy(last.out, "input") = {}
             /\ SentBy(last.out, "compositionend") = {})
    /\ [](last.op = "compositionend" =>
             /\ ~is_composing
             /\ value = ""
             /\ last.out = IF last.in = None THEN <<>>
                           ELSE <<[ev |-> TextEv(last.in[1]),
                                   src |-> "compositionend"]>>)
    /\ [][(last.op = "compositionend" /\ last'.op = "input" /\ last'.in = "")
            => last'.out = <<>>]_vars

\* C3 witness: a session whose composition string was in the value has
\* ended with data "k", sent as a Text
C3_Witness ==
    /\ last.op = "compositionend"
    /\ last.in = Some("k")
    /\ channel # <<>>
    /\ channel[Len(channel)].ev = TextEv("k")
    /\ ~is_composing

\* C4 (as stated): after a run of update_text_agent that found window,
\* document, agent and canvas, the agent is shown if some context has focus
\* and hidden and blurred if none has; where the run showed it, it has focus.
C4_Original ==
    (last.op = "update_text_agent" /\ last.in.lookup = "ok") =>
        /\ hidden = ~AnyFocus
        /\ last.in.focus # "not_called" => dom_focus
        /\ ~AnyFocus => ~dom_focus

\* C4 (amended): after such a run, with some context focused the agent is
\* shown, and focus() was called if it was hidden before and, where it
\* returned Ok, the agent has focus; with no context focused and blur()
\* returning Ok the agent is hidden and not focused; with blur() returning
\* Err hidden and focus are as before the run.
UpdateStep == last'.op = "update_text_agent"
C4_ShownIffFocusUnlessBlurFails ==
    [][(UpdateStep /\ last'.in.lookup = "ok") =>
         IF AnyFocus
         THEN /\ ~hidden'
              /\ hidden <=> last'.in.focus # "not_called"
              /\ last'.in.focus = "ok" => dom_focus'
              /\ last'.in.blur = "not_called"
         ELSE /\ last'.in.focus = "not_called"
              /\ last'.in.blur \in {"ok", "err"}
              /\ last'.in.blur = "ok" => hidden' /\ ~dom_focus'
              /\ last'.in.blur = "err" => UNCHANGED <<hidden, dom_focus>>]_vars

\* C4 witness: a run with no context focused whose blur() failed has left
\* the agent shown and focused
C4_Witness ==
    /\ last.op = "update_text_agent"
    /\ last.in.blur = "err"
    /\ ~AnyFocus
    /\ ~hidden
    /\ dom_focus

\* C9: a keystroke sends at most one Text; the keydown listener sends one
\* only with the agent hidden, the input listener only with the agent shown
\* and focused.
C9_OneTextPerKeystroke ==
    last.op = "keydown" =>
        /\ Cardinality(TextsIn(last.out)) <= 1
        /\ (TextsIn(last.out) \cap SentBy(last.out, "keydown") # {}) => hidden
        /\ (TextsIn(last.out) \cap SentBy(last.out, "input") # {}) =>
              ~hidden /\ dom_focus

\* C9 witness: with the agent shown and focused a keystroke "a" sent the
\* Key from keydown and the Text from the input listener
C9_Witness ==
    /\ last.op = "keydown"
    /\ last.in.key = "a"
    /\ Len(last.out) = 2
    /\ last.out[1].src = "keydown" /\ IsKey(last.out[1].ev)
    /\ last.out[2].src = "input" /\ last.out[2].ev = TextEv("a")
    /\ ~hidden

\* the keydown listener ran past its composition test
PlainKeydown ==
    last.op = "keydown" /\ ~last.in.is_composing /\ last.in.key_code # ImeKeyCode
\* the egui keys of the Key events the keydown listener sent
KeysSent == {last.out[i].ev.key : i \in KeysIn(last.out) \cap SentBy(last.out, "keydown")}
SameNameKeys == {"ArrowDown", "ArrowLeft", "ArrowRight", "ArrowUp", "Tab",
                 "Backspace", "Enter", "Delete", "Home", "End", "PageUp",
                 "PageDown"}
MappedStrings ==
    SameNameKeys \cup {"Esc", "Escape", "Space", " ", "Help", "Insert"}
    \cup Range(Digits) \cup Range(Lower) \cup Range(Upper)

\* C7: translate_key maps the arrows, Tab, Backspace, Enter, Delete, Home,
\* End, PageUp, PageDown to the key of that name, "Esc" and "Escape" to
\* Escape, "Space" and " " to Space, "Help" and "Insert" to Insert, "0".."9"
\* to Num0..Num9, both cases of a letter to that letter's key, and every
\* other string to None (seen through the Key event keydown sends).
C7_TranslateKeyTable ==
    PlainKeydown =>
        LET k == last.in.key
        IN  /\ k \in SameNameKeys => KeysSent = {k}
            /\ k \in {"Esc", "Escape"} => KeysSent = {"Escape"}
            /\ k \in {"Space", " "} => KeysSent = {"Space"}
            /\ k \in {"Help", "Insert"} => KeysSent = {"Insert"}
            /\ \A i \in 1..Len(Digits) :
                  k = Digits[i] => KeysSent = {"Num" \o Digits[i]}
            /\ \A i \in 1..Len(Lower) :
                  k \in {Lower[i], Upper[i]} => KeysSent = {Upper[i]}
            /\ k \notin MappedStrings => KeysSent = {}
            /\ Cardinality(KeysIn(last.out)) <= 1

\* C7 witness: keydown of an upper-case letter sent that letter's key
C7_Witness ==
    /\ PlainKeydown
    /\ last.in.key = "Q"
    /\ KeysSent = {"Q"}

\* C8: a keydown with is_composing set or with key code 229 sends nothing
\* from the keydown listener.
C8_ComposingKeydownSilent ==
    (last.op = "keydown" /\ (last.in.is_composing \/ last.in.key_code = ImeKeyCode))
        => SentBy(last.out, "keydown") = {}

\* C8 witness: a keydown "a" with key code 229, not composing, agent hidden
C8_Witness ==
    /\ last.op = "keydown"
    /\ last.in.key = "a"
    /\ last.in.key_code = ImeKeyCode
    /\ ~last.in.is_composing
    /\ hidden
    /\ last.out = <<>>

\* the names of keys that type no character: the named keys translate_key
\* maps, and modifier, lock and function keys
KeyNames ==
    SameNameKeys \cup {"Esc", "Escape", "Space", "Help", "Insert"}
    \cup {"Alt", "AltGraph", "Control", "Meta", "Shift"}
    \cup {"CapsLock", "NumLock", "ScrollLock", "SymbolLock", "FnLock"}
    \cup {"Fn", "F1", "F2", "F12"}

\* C10: the keydown listener sends no Text carrying the name of a key.
C10_NoTextForKeyNames ==
    last.op = "keydown" =>
        \A i \in TextsIn(last.out) \cap SentBy(last.out, "keydown") :
            last.out[i].ev.text \notin KeyNames

\* ------------------------------------------------------------ on_input
\* what a run of the agent's input listener does when it finds `typed` as
\* the agent's value
InputSent(out) == SelectSeq(out, LAMBDA m : m.src = "input")
InputEffect(typed) ==
    IF typed # "" /\ ~is_composing
    THEN /\ InputSent(last'.out) = <<[ev |-> TextEv(typed), src |-> "input"]>>
         /\ value' = ""
    ELSE /\ InputSent(last'.out) = <<>>
         /\ value' = typed

\* C11: an input event outside composition that finds a non-empty value
\* sends exactly one Text with the whole value and clears the value, so a
\* later input event's Text holds only what was typed since; an input event
\* that finds the value empty, or comes during composition, sends nothing
\* and leaves the value as it is.
C11_InputTakesWholeValueOnce ==
    [][/\ last'.op = "input" => InputEffect(value \o last'.in)
       /\ last'.op = "compositionupdate" => InputEffect(last'.in)
       /\ last'.op = "keydown" /\ KeyTypesInto(last'.in)
              => InputEffect(value \o last'.in.key)]_vars

\* two input events have each sent the one character typed before them
C11_Witness ==
    /\ last.op = "input"
    /\ Len(channel) = 2
    /\ \A i \in 1..2 : channel[i].src = "input" /\ channel[i].ev = TextEv("a")
    /\ value = ""

\* ------------------------------------------------------------ clipboard
TextsOf(out, text) == {i \in 1..Len(out) : out[i].ev = TextEv(text)}

\* C12: a paste of clipboard text sends that text as Text exactly once,
\* with the agent hidden as well as shown and focused; a cut sends exactly
\* one Cut and a copy exactly one Copy.
C12_ClipboardEventsOnce ==
    [][/\ last'.op = "paste" /\ last'.in # None
              => Cardinality(TextsOf(last'.out, last'.in[1])) = 1
       /\ last'.op = "cut"
              => Len(last'.out) = 1 /\ last'.out[1].ev = CutEv
       /\ last'.op = "copy"
              => Len(last'.out) = 1 /\ last'.out[1].ev = CopyEv]_vars

\* ------------------------------------------------------------ refocus
\* C13: whenever the agent loses DOM focus, by the page or by the blur() of
\* update_text_agent, exactly one refocus timeout is scheduled; a scheduled
\* timeout goes away only by running, and as long as one is pending a
\* timeout runs eventually; a running timeout leaves hidden as it is.
C13_RefocusScheduledAndRun ==
    /\ [][/\ dom_focus /\ ~dom_focus' => timers' = timers + 1
          /\ timers' > timers => dom_focus /\ ~dom_focus'
          /\ timers' < timers => last'.op = "refocus"
          /\ last'.op = "refocus"
                 => hidden' = hidden /\ timers' = timers - 1]_vars
    /\ ([]<><<RefocusTimeout>>_vars \/ <>[](timers = 0))

\* the timeout scheduled by the blur() of update_text_agent has run on the
\* hidden agent
C13_Witness ==
    /\ last.op = "refocus"
    /\ hidden
    /\ ~dom_focus
    /\ timers = 0

\* ------------------------------------------------------------ move_text_cursor
MoveStep == last'.op = "move_text_cursor"
\* the platform is positively identified as non-mobile
NonMobile(user_agent) ==
    user_agent # None /\ user_agent[1] \cap MOBILE_DEVICE = {}
\* the cursor offset by the canvas scroll and offset, capped from above at
\* the canvas client size minus the agent's size
CursorTop(i) ==
    LET at == i.cursor[1].y + i.canvas.scroll_top + i.canvas.offset_top
        cap == i.canvas.client_height - i.rect.height
    IN  IF at > cap THEN cap ELSE at
CursorLeft(i) ==
    LET at == i.cursor[1].x + i.canvas.scroll_left + i.canvas.offset_left
        cap == i.canvas.client_width - i.rect.width
    IN  IF at > cap THEN cap ELSE at

\* C14 (as stated): on a non-mobile platform with a cursor the agent is put
\* at the capped cursor position; with no cursor there the position is
\* unchanged and the result None; on a mobile or undetermined platform the
\* agent is reset to top 0px, left 0px.
C14_Original ==
    [][MoveStep =>
         LET i == last'.in
         IN  IF NonMobile(i.user_agent)
             THEN IF i.cursor # None
                  THEN style' = [top |-> CursorTop(i), left |-> CursorLeft(i)]
                  ELSE style' = style /\ last'.out = None
             ELSE style' = [top |-> 0, left |-> 0]]_vars

\* C14: the same, with the canvas lookup and the results of set_property:
\* the agent is moved on a non-mobile platform only with a cursor and a
\* canvas element, else the position is unchanged and the result None; a
\* set_property that returns Err ends the call with None, leaving unwritten
\* what comes after it (top is written before left).
C14_MovesToCappedCursor ==
    [][MoveStep =>
         LET i == last'.in
             target == IF NonMobile(i.user_agent)
                       THEN [top |-> CursorTop(i), left |-> CursorLeft(i)]
                       ELSE [top |-> 0, left |-> 0]
         IN  IF NonMobile(i.user_agent) /\ (i.cursor = None \/ i.lookup # "ok")
             THEN style' = style /\ last'.out = None
             ELSE CASE i.failing = 0 -> style' = target /\ last'.out = Some(Unit)
                    [] i.failing = 3 ->
                         /\ style' = [top |-> target.top, left |-> style.left]
                         /\ last'.out = None
                    [] OTHER -> style' = style /\ last'.out = None]_vars

\* the agent has been moved to a capped position: the cursor at (1, 1) in the
\* canvas scrolled by 1 and offset by 1, capped at 3 - 1 and 2 - 1
C14_Witness ==
    /\ last.op = "move_text_cursor"
    /\ NonMobile(last.in.user_agent)
    /\ last.in.cursor = Some([x |-> 1, y |-> 1])
    /\ last.in.canvas.scroll_top = 1
    /\ last.out = Some(Unit)
    /\ style = [top |-> 2, left |-> 1]

\* ------------------------------------------------------------ keydown, in order
KeydownSent(out) == SelectSeq(out, LAMBDA m : m.src = "keydown")
EventModifiers(e) ==
    [alt |-> e.alt_key, ctrl |-> e.ctrl_key, shift |-> e.shift_key,
     mac_cmd |-> e.meta_key, command |-> e.ctrl_key \/ e.meta_key]

\* C15: a keydown outside composition sends first a Key press (pressed,
\* not repeat, the event's modifiers) exactly when translate_key maps the
\* key, then Text(key) exactly when neither ctrl nor meta is held,
\* should_ignore_key is false and the agent is hidden; alt and shift do not
\* enter the Text condition, ctrl and meta do not enter the Key condition.
C15_KeyThenText ==
    [][last'.op = "keydown" /\ ~last'.in.is_composing
                            /\ last'.in.key_code # ImeKeyCode =>
         LET e == last'.in
             press == [type |-> "Key", key |-> translate_key(e.key)[1],
                       pressed |-> TRUE, modifiers |-> EventModifiers(e),
                       repeat |-> FALSE]
             text == [type |-> "Text", text |-> e.key]
         IN  KeydownSent(last'.out) =
                 (IF translate_key(e.key) # None
                  THEN <<[ev |-> press, src |-> "keydown"]>> ELSE <<>>)
                 \o
                 (IF ~e.ctrl_key /\ ~e.meta_key /\ ~should_ignore_key(e.key)
                     /\ hidden
                  THEN <<[ev |-> text, src |-> "keydown"]>> ELSE <<>>)]_vars

\* "a" with alt held, the agent hidden: the Key press, then the Text
C15_Witness ==
    /\ last.op = "keydown"
    /\ last.in.key = "a" /\ last.in.alt_key
    /\ hidden
    /\ Len(last.out) = 2
    /\ IsKey(last.out[1].ev) /\ last.out[1].ev.pressed
    /\ last.out[2].ev = TextEv("a")

\* ------------------------------------------------------------ keyup
PressedKeys(out) ==
    {out[i].ev.key : i \in {j \in 1..Len(out) :
                              IsKey(out[j].ev) /\ out[j].ev.pressed}}
ReleasedKeys(out) ==
    {out[i].ev.key : i \in {j \in 1..Len(out) :
                              IsKey(out[j].ev) /\ ~out[j].ev.pressed}}

\* C16: a keyup sends exactly one Key release (not pressed, not repeat) when
\* translate_key maps the key and nothing otherwise, never a Text, inside a
\* composition as well as outside; so the release of a key whose keydown
\* sent a Key press sends the Key release of the same key.
C16_KeyupReleases ==
    [][/\ last'.op = "keyup" =>
            LET e == last'.in
                release == [type |-> "Key", key |-> translate_key(e.key)[1],
                            pressed |-> FALSE, modifiers |-> EventModifiers(e),
                            repeat |-> FALSE]
            IN  last'.out = IF translate_key(e.key) # None
                            THEN <<[ev |-> release, src |-> "keyup"]>>
                            ELSE <<>>
       /\ last.op = "keydown" /\ last'.op = "keyup" /\ last'.in.key = last.in.key
              => PressedKeys(last.out) \subseteq ReleasedKeys(last'.out)]_vars

\* a key pressed outside composition and released inside one: the channel
\* holds its Key press and, after it, its Key release
C16_Witness ==
    /\ last.op = "keyup"
    /\ last.in.is_composing
    /\ \E i, j \in 1..Len(channel) :
          /\ i < j
          /\ channel[i].src = "keydown" /\ IsKey(channel[i].ev)
          /\ channel[i].ev.pressed
          /\ channel[j].src = "keyup" /\ IsKey(channel[j].ev)
          /\ ~channel[j].ev.pressed
          /\ channel[j].ev.key = channel[i].ev.key

\* ------------------------------------------------------------ RequestRedraw
\* C17: a run of propagate_text sends one RequestRedraw when it pushed at
\* least one event to a context, however many, and none when it pushed none
\* (the channel empty, or no context with focus).
C17_OneRedrawPerDeliveringRun ==
    [][PropagateStep =>
         LET pushed == \E c \in Contexts : Len(events'[c]) > Len(events[c])
         IN  redraws' = IF pushed THEN redraws + 1 ELSE redraws]_vars

\* one run has delivered two events and sent a single RequestRedraw
C17_Witness ==
    /\ last.op = "propagate_text"
    /\ redraws = 1
    /\ \E c \in Contexts : Len(events[c]) = 2

\* ------------------------------------------------------------ early returns
\* C18: a run of update_text_agent that does not find the window, the
\* document, the agent element or a canvas changes neither hidden nor the
\* DOM focus; a run whose blur() fails leaves hidden as it was; a run whose
\* focus() fails has un-hidden the agent before.
C18_EarlyReturns ==
    [][UpdateStep =>
         /\ last'.in.lookup = "not_found" => UNCHANGED <<hidden, dom_focus>>
         /\ last'.in.blur = "err" => hidden' = hidden
         /\ last'.in.focus = "err" => hidden /\ ~hidden']_vars

\* focus() has failed: the agent is shown and is not the focused element
C18_Witness ==
    /\ last.op = "update_text_agent"
    /\ last.in.focus = "err"
    /\ ~hidden
    /\ ~dom_focus
    /\ timers = 0

\* ------------------------------------------------------------ repeated runs
AgentState == <<hidden, dom_focus, timers>>
AlreadyShownRun ==
    AnyFocus /\ ~hidden
        => /\ hidden' = hidden
           /\ dom_focus' = dom_focus
           /\ last'.in.focus = "not_called"

C20_HiddenChangedByUpdateOnly ==
    /\ [](last.op = "install" => hidden /\ ~is_composing)
    /\ [][hidden' # hidden =>
            /\ last'.op = "update_text_agent"
            /\ hidden => AnyFocus]_vars

\* a composition has ended on the agent that update_text_agent has shown
C20_Witness ==
    /\ last.op = "compositionend"
    /\ ~hidden
    /\ nsent = 1

====
